---- MODULE Spec2Model ----
(***************************************************************************)
(* DISCOCheck, the monitor of asynchronous DISCO operations of the cinder  *)
(* DISCO volume driver (cinder/volume/drivers/disco/disco.py).             *)
(*                                                                         *)
(* A DISCOCheck object is built with a client, the params of the pending   *)
(* operation, a start time and the name of the detail function to poll.    *)
(* _monitor_request(timeout) runs _retry_get_detail in a                   *)
(* FixedIntervalLoopingCall started with interval=CONF.retry_interval and  *)
(* no initial_delay, and waits for it.  The looping call runs the callback,*)
(* then sleeps what is left of the interval, until the callback raises:    *)
(* LoopingCallDone(retvalue) ends the loop with retvalue, any other        *)
(* exception ends it with that exception.                                  *)
(*                                                                         *)
(* The clock is counted in ticks, TicksPerSec ticks to the second;         *)
(* int(time.time()) truncates it to whole seconds.                         *)
(***************************************************************************)
EXTENDS Integers, Sequences, FiniteSets, TLC

\* ------------------------------------------------------------------ bounds
TicksPerSec == 2
MaxTimeout == 2
MaxInterval == 2
MaxCallTicks == 2
MaxStatus == 3

\* No step of a running monitor takes the clock past this (ClockCapUnreached):
\* the last poll that does not time out comes before (MaxTimeout + 1) seconds,
\* one sleep and one query follow it.
MaxClock == (MaxTimeout + 1 + MaxInterval) * TicksPerSec + MaxCallTicks

\* --------------------------------------------------------------- constants
\* DISCO_CODE_MAPPING
request_success == 1
request_ongoing == 2
request_failure == 3

\* The default of the option retry_interval, in seconds
default_retry_interval == 1

\* A field that the reply does not hold (reply[key] raises KeyError), and a
\* field that is there with an empty value (None or '').
Absent == -1
Empty == -2
\* The value of an operator whose code raised instead of returning.
Raised == -3

Operations == {"snapshot_detail", "restore_detail", "clone_detail", "volume_detail"}

VARIABLES
    function,    \* self.function: the operation polled
    param,       \* self.param
    start_time,  \* self.start_time, whole seconds
    interval,    \* CONF.retry_interval, whole seconds
    timeout,     \* the timeout given to _monitor_request, whole seconds
    now,         \* the clock, in ticks
    pc,          \* "init", "loop", "query", "sleep", "done"
    watch,       \* ticks the last run of the callback took
    call,        \* the last call made on the client
    reply,       \* the last reply of the client
    outcome,     \* how the last run of the callback ended, "none": it returned
    retvalue,    \* what _monitor_request's wait() yields
    msg,         \* the data of the exception raised
    queries,     \* calls made on the client
    replies,     \* history: replies received
    ongoing,     \* history: replies received that were accepted and Ongoing
    started_at,  \* history: tick at which _monitor_request was called
    issued_at,   \* history: tick at which the last query was issued
    \* a caller that monitors the same operation a second time
    run,         \* which monitor of the operation this is, 1 or 2
    prev,        \* history: how the first monitor ended
    \* the initiators of DiscoDriver
    initiator,   \* the method of DiscoDriver that runs, "none": the monitor alone
    ipc,         \* where the initiator is
    accepted,    \* the reply to the call that starts the operation
    called,      \* the methods the initiator has called on the client
    provider_location,  \* snapshot['provider_location']
    returned,    \* the provider_location of the dict the initiator returns
    \* two monitors that run at the same time
    thread,      \* per monitor: its looping call and the arguments bound to it
    object,      \* per DISCOCheck object: the attributes __init__ has set
    alone        \* history: per monitor, the same monitor run on its own

twice_vars == <<run, prev>>
driver_vars == <<initiator, ipc, accepted, called, provider_location, returned>>
pair_vars == <<thread, object, alone>>
other_vars == <<twice_vars, driver_vars, pair_vars>>
\* The variables of the one monitor of Spec, but the clock.
mono_vars == <<function, param, start_time, interval, timeout, pc, watch, call,
               reply, outcome, retvalue, msg, queries, replies, ongoing,
               started_at, issued_at>>

vars == <<function, param, start_time, interval, timeout, now, pc, watch, call,
          reply, outcome, retvalue, msg, queries, replies, ongoing, started_at,
          issued_at, other_vars>>

\* ------------------------------------------------------------------ values
StatusValues == 0..MaxStatus
FieldValues == StatusValues \cup {Absent, Empty}
\* Ids of pending operations, as the backend gives them.
ParamIds == {11}

\* The status of a reply: 0 when the call was accepted.
TransportValues == {0, 1}

NoneReply ==
    [isNone |-> TRUE, status |-> Absent, result |-> Absent,
     snapshotInfoResult |-> Absent, restoreInfoResult |-> Absent]

\* The result field of a reply: cloneDetail's holds the status of the clone;
\* the code does not read the one of snapshotDetail and restoreDetail.
ResultValues(operation) ==
    IF operation = "clone_detail" THEN FieldValues
    ELSE {Absent, request_success, request_failure}

\* What the client's detail calls answer: None, or a reply with a status, a
\* result and, for snapshotDetail and restoreDetail, the status of the info
\* result of that call.
Replies(operation) ==
    {NoneReply} \cup
    [isNone : {FALSE}, status : TransportValues,
     result : ResultValues(operation),
     snapshotInfoResult :
        IF operation = "snapshot_detail" THEN FieldValues ELSE {Absent},
     restoreInfoResult :
        IF operation = "restore_detail" THEN FieldValues ELSE {Absent}]

NoCall == [method |-> "none", args |-> <<>>]
\* The data of an exception: the text of the message and the values formatted
\* into it.  No message of the monitor holds a reply or an elapsed time.
NoMsg ==
    [text |-> "none", op |-> "none", status |-> Absent, payload |-> Absent,
     elapsed |-> Absent]

\* The params the initiators build (create_snapshot, create_volume_from_snapshot,
\* create_cloned_volume).
ParamsOf(operation, id) ==
    [snapshot_id |-> IF operation = "snapshot_detail" THEN id ELSE Absent,
     restore_id |-> IF operation = "restore_detail" THEN id ELSE Absent,
     clone_id |-> IF operation = "clone_detail" THEN id ELSE Absent,
     vol_name |-> IF operation = "clone_detail" THEN id ELSE Absent]

\* ------------------------------------------------------------------- clock
\* int(time.time())
int_time(clock) == clock \div TicksPerSec

\* Mutant: the deadline itself counts as past it.
is_timeout_at_deadline(clock, start, limit) == int_time(clock) - start >= limit

\* Mutant: the time is counted from the poll, not from the start.
is_timeout_since_poll(clock, start, limit) ==
    int_time(clock) - int_time(clock) > limit

\* DISCOCheck.is_timeout, with the clock it reads
is_timeout(clock, start, limit) == int_time(clock) - start > limit

\* ---------------------------------------------------------------- the code
\* Mutant: the last branch takes every other operation for a clone.
_call_api_no_else(operation, params) ==
    IF operation = "snapshot_detail"
    THEN [raised |-> FALSE, method |-> "snapshotDetail",
          args |-> <<params.snapshot_id>>]
    ELSE IF operation = "restore_detail"
    THEN [raised |-> FALSE, method |-> "restoreDetail",
          args |-> <<params.restore_id>>]
    ELSE [raised |-> FALSE, method |-> "cloneDetail",
          args |-> <<params.clone_id, params.vol_name>>]

\* DISCOCheck._call_api: the call made on the client, or Raised
_call_api(operation, params) ==
    IF operation = "snapshot_detail"
    THEN [raised |-> FALSE, method |-> "snapshotDetail",
          args |-> <<params.snapshot_id>>]
    ELSE IF operation = "restore_detail"
    THEN [raised |-> FALSE, method |-> "restoreDetail",
          args |-> <<params.restore_id>>]
    ELSE IF operation = "clone_detail"
    THEN [raised |-> FALSE, method |-> "cloneDetail",
          args |-> <<params.clone_id, params.vol_name>>]
    ELSE [raised |-> TRUE, method |-> "none", args |-> <<>>]

\* int(x) of a reply field: raises on a missing or empty one
py_int(x) == IF x \in {Absent, Empty} THEN Raised ELSE x

\* d[key] of a reply field: raises KeyError on a missing one
py_item(x) == IF x = Absent THEN Raised ELSE x

\* Mutant: the status is read from the result field whatever the operation.
_get_item_status_any_kind(operation, r) ==
    IF r.isNone THEN Raised ELSE py_int(r.result)

\* DISCOCheck._get_item_status: the status of the item, or Raised
_get_item_status(operation, r) ==
    IF r.isNone THEN Raised
    ELSE IF operation = "snapshot_detail" THEN py_item(r.snapshotInfoResult)
    ELSE IF operation = "restore_detail" THEN py_item(r.restoreInfoResult)
    ELSE IF operation = "clone_detail" THEN py_int(r.result)
    ELSE Raised

Returns == [outcome |-> "none", msg |-> NoMsg]
Raises(kind, text, op, status) ==
    [outcome |-> kind,
     msg |-> [text |-> text, op |-> op, status |-> status, payload |-> Absent,
              elapsed |-> Absent]]

\* Mutant: the timeout is looked at before the status of the item.
_retry_get_detail_timeout_first(clock, start, limit, operation, r) ==
    IF r.isNone
    THEN Raises("invalid_reply", "TypeError", "none", Absent)
    ELSE IF r.status # 0
    THEN Raises("query_failed", "Error while getting details", operation, r.status)
    ELSE LET item_status == _get_item_status(operation, r) IN
         IF item_status = Raised
         THEN Raises("invalid_reply", "KeyError", "none", Absent)
         ELSE IF is_timeout(clock, start, limit)
         THEN Raises("timeout", "Timeout while calling", operation, Absent)
         ELSE IF item_status = request_failure
         THEN Raises("failed", "Error while getting details", operation, r.status)
         ELSE IF item_status = request_success
         THEN [outcome |-> "success", msg |-> NoMsg]
         ELSE Returns

\* Mutant: a success is not signalled with LoopingCallDone, the callback returns.
_retry_get_detail_success_returns(clock, start, limit, operation, r) ==
    IF r.isNone
    THEN Raises("invalid_reply", "TypeError", "none", Absent)
    ELSE IF r.status # 0
    THEN Raises("query_failed", "Error while getting details", operation, r.status)
    ELSE LET item_status == _get_item_status(operation, r) IN
         IF item_status = Raised
         THEN Raises("invalid_reply", "KeyError", "none", Absent)
         ELSE IF item_status = request_failure
         THEN Raises("failed", "Error while getting details", operation, r.status)
         ELSE IF item_status = request_success
         THEN Returns
         ELSE IF is_timeout(clock, start, limit)
         THEN Raises("timeout", "Timeout while calling", operation, Absent)
         ELSE Returns

\* Mutant: a failure of the item is not looked at.
_retry_get_detail_no_failure(clock, start, limit, operation, r) ==
    IF r.isNone
    THEN Raises("invalid_reply", "TypeError", "none", Absent)
    ELSE IF r.status # 0
    THEN Raises("query_failed", "Error while getting details", operation, r.status)
    ELSE LET item_status == _get_item_status(operation, r) IN
         IF item_status = Raised
         THEN Raises("invalid_reply", "KeyError", "none", Absent)
         ELSE IF item_status = request_success
         THEN [outcome |-> "success", msg |-> NoMsg]
         ELSE IF is_timeout(clock, start, limit)
         THEN Raises("timeout", "Timeout while calling", operation, Absent)
         ELSE Returns

\* Mutant: the status of the item is looked at before the status of the reply.
_retry_get_detail_item_first(clock, start, limit, operation, r) ==
    IF r.isNone
    THEN Raises("invalid_reply", "TypeError", "none", Absent)
    ELSE LET item_status == _get_item_status(operation, r) IN
         IF item_status = request_failure
         THEN Raises("failed", "Error while getting details", operation, r.status)
         ELSE IF item_status = request_success
         THEN [outcome |-> "success", msg |-> NoMsg]
         ELSE IF r.status # 0
         THEN Raises("query_failed", "Error while getting details", operation,
                     r.status)
         ELSE IF item_status = Raised
         THEN Raises("invalid_reply", "KeyError", "none", Absent)
         ELSE IF is_timeout(clock, start, limit)
         THEN Raises("timeout", "Timeout while calling", operation, Absent)
         ELSE Returns

\* Mutant: a status that is none of the three codes is refused.
_retry_get_detail_known_codes(clock, start, limit, operation, r) ==
    IF r.isNone
    THEN Raises("invalid_reply", "TypeError", "none", Absent)
    ELSE IF r.status # 0
    THEN Raises("query_failed", "Error while getting details", operation, r.status)
    ELSE LET item_status == _get_item_status(operation, r) IN
         IF item_status = Raised
         THEN Raises("invalid_reply", "KeyError", "none", Absent)
         ELSE IF item_status = request_failure
         THEN Raises("failed", "Error while getting details", operation, r.status)
         ELSE IF item_status = request_success
         THEN [outcome |-> "success", msg |-> NoMsg]
         ELSE IF item_status # request_ongoing
         THEN Raises("invalid_reply", "Unknown status", operation, Absent)
         ELSE IF is_timeout(clock, start, limit)
         THEN Raises("timeout", "Timeout while calling", operation, Absent)
         ELSE Returns

\* DISCOCheck._retry_get_detail from the reply of _call_api on: how the
\* callback ends ("none": it returns), read at the clock given.
_retry_get_detail(clock, start, limit, operation, r) ==
    IF r.isNone
    THEN Raises("invalid_reply", "TypeError", "none", Absent)
    ELSE IF r.status # 0
    THEN Raises("query_failed", "Error while getting details", operation, r.status)
    ELSE LET item_status == _get_item_status(operation, r) IN
         IF item_status = Raised
         THEN Raises("invalid_reply", "KeyError", "none", Absent)
         ELSE IF item_status = request_failure
         THEN Raises("failed", "Error while getting details", operation, r.status)
         ELSE IF item_status = request_success
         THEN [outcome |-> "success", msg |-> NoMsg]
         ELSE IF is_timeout(clock, start, limit)
         THEN Raises("timeout", "Timeout while calling", operation, Absent)
         ELSE Returns

\* Mutant: the looping call is started with initial_delay=interval.
initial_delay_interval(i) == i

\* FixedIntervalLoopingCall.start(interval=...): no initial_delay is given, so
\* the loop does not sleep before the first run of the callback.
initial_delay(i) == 0

\* FixedIntervalLoopingCall: the sleep between two runs, what is left of the
\* interval after a run that took `elapsed` ticks.
idle_for(elapsed, i) ==
    IF elapsed < i * TicksPerSec THEN i * TicksPerSec - elapsed ELSE 0

\* Mutant: the call is started with stop_on_exception=False, only
\* LoopingCallDone ends it.
loop_continues_on_exception(kind) == kind # "success"

\* Mutant: a query that failed is tried again.
loop_continues_on_query_failed(kind) == kind \in {"none", "query_failed"}

\* The looping call goes on after a run of the callback that ended `kind`?
\* The call is started with the default stop_on_exception=True: every raise
\* ends it.
loop_continues(kind) == kind = "none"

\* The reply is an accepted one whose kind-specific status field reads s.
Reads(operation, r, s) ==
    /\ ~r.isNone
    /\ r.status = 0
    /\ s = (IF operation = "snapshot_detail" THEN r.snapshotInfoResult
            ELSE IF operation = "restore_detail" THEN r.restoreInfoResult
            ELSE r.result)

\* The cap on the clock, counted from the second the monitor was built in.
Capped(clock) == clock - start_time * TicksPerSec <= MaxClock

\* Nothing is known of a first monitor; no reply to an initiating call yet.
NoPrev == [outcome |-> "none", retvalue |-> NoneReply, queries |-> 0]
NoAccepted == [status |-> Absent, result |-> Absent]

\* The monitors that run at the same time.
Instances == {1, 2}
NoObject ==
    [function |-> "none", param |-> ParamsOf("none", Absent), start_time |-> 0]
NoThread ==
    [pc |-> "unbuilt", due |-> 0, start |-> 0, limit |-> 0, issued_at |-> 0,
     queries |-> 0, outcome |-> "none"]
\* No second monitor runs.
PairIdle ==
    /\ thread = [i \in Instances |-> NoThread]
    /\ object = [i \in Instances |-> NoObject]
    /\ alone = [i \in Instances |-> [obj |-> NoObject, th |-> NoThread]]

\* ----------------------------------------------------------------- actions
Init ==
    /\ function \in Operations
    /\ \E id \in ParamIds : param = ParamsOf(function, id)
    /\ now \in 0..(TicksPerSec - 1)
    /\ start_time = int_time(now)
    /\ interval \in 1..MaxInterval
    /\ timeout = 0
    /\ pc = "init"
    /\ watch = 0
    /\ call = NoCall
    /\ reply = NoneReply
    /\ outcome = "none"
    /\ retvalue = NoneReply
    /\ msg = NoMsg
    /\ queries = 0
    /\ replies = 0
    /\ ongoing = 0
    /\ started_at = now
    /\ issued_at = now
    /\ run = 1
    /\ prev = NoPrev
    /\ initiator = "none"
    /\ ipc = "none"
    /\ accepted = NoAccepted
    /\ called = {}
    /\ provider_location = Absent
    /\ returned = Absent
    /\ PairIdle

\* DISCOCheck._monitor_request(t): build the looping call and start it.
MonitorRequest(t) ==
    /\ pc = "init"
    /\ Capped(now + initial_delay(interval) * TicksPerSec)
    /\ timeout' = t
    /\ started_at' = now
    /\ now' = now + initial_delay(interval) * TicksPerSec
    /\ pc' = "loop"
    /\ UNCHANGED <<function, param, start_time, interval, watch, call, reply,
                   outcome, retvalue, msg, queries, replies, ongoing,
                   issued_at>>
    /\ UNCHANGED other_vars

\* Mutant: the timeout is looked at before the query is made.
CallApi_timeout_before_query ==
    /\ pc = "loop"
    /\ LET c == _call_api(function, param) IN
       IF is_timeout(now, start_time, timeout)
       THEN /\ pc' = "done"
            /\ outcome' = "timeout"
            /\ msg' = Raises("timeout", "Timeout while calling", function,
                             Absent).msg
            /\ watch' = 0
            /\ UNCHANGED <<call, queries, issued_at>>
       ELSE IF c.raised
       THEN /\ pc' = "done"
            /\ outcome' = "unknown_operation"
            /\ msg' = [text |-> "Unknown operation", op |-> function,
                       status |-> Absent, payload |-> Absent,
                       elapsed |-> Absent]
            /\ watch' = 0
            /\ UNCHANGED <<call, queries, issued_at>>
       ELSE /\ pc' = "query"
            /\ call' = [method |-> c.method, args |-> c.args]
            /\ queries' = queries + 1
            /\ issued_at' = now
            /\ UNCHANGED <<outcome, msg, watch>>
    /\ UNCHANGED <<function, param, start_time, interval, timeout, now, reply,
                   retvalue, replies, ongoing, started_at>>
    /\ UNCHANGED other_vars

\* Mutant: the timer fires again while the query of the run before is out.
CallApi_while_in_flight ==
    /\ pc \in {"loop", "query"}
    /\ LET c == _call_api(function, param) IN
       IF c.raised
       THEN /\ pc' = "done"
            /\ outcome' = "unknown_operation"
            /\ msg' = [text |-> "Unknown operation", op |-> function,
                       status |-> Absent, payload |-> Absent,
                       elapsed |-> Absent]
            /\ watch' = 0
            /\ UNCHANGED <<call, queries, issued_at>>
       ELSE /\ pc' = "query"
            /\ call' = [method |-> c.method, args |-> c.args]
            /\ queries' = queries + 1
            /\ issued_at' = now
            /\ UNCHANGED <<outcome, msg, watch>>
    /\ UNCHANGED <<function, param, start_time, interval, timeout, now, reply,
                   retvalue, replies, ongoing, started_at>>
    /\ UNCHANGED other_vars

\* The looping call runs _retry_get_detail, which calls _call_api: the query
\* leaves, or the operation is unknown and _call_api raises.
CallApi ==
    /\ pc = "loop"
    /\ LET c == _call_api(function, param) IN
       IF c.raised
       THEN /\ pc' = "done"
            /\ outcome' = "unknown_operation"
            /\ msg' = [text |-> "Unknown operation", op |-> function,
                       status |-> Absent, payload |-> Absent,
                       elapsed |-> Absent]
            /\ watch' = 0
            /\ UNCHANGED <<call, queries, issued_at>>
       ELSE /\ pc' = "query"
            /\ call' = [method |-> c.method, args |-> c.args]
            /\ queries' = queries + 1
            /\ issued_at' = now
            /\ UNCHANGED <<outcome, msg, watch>>
    /\ UNCHANGED <<function, param, start_time, interval, timeout, now, reply,
                   retvalue, replies, ongoing, started_at>>
    /\ UNCHANGED other_vars

\* Mutant: a poll that goes on counts the time from itself.
GetDetailReturn_restarts_clock(r, d) ==
    /\ pc = "query"
    /\ Capped(now + d)
    /\ now' = now + d
    /\ watch' = d
    /\ reply' = r
    /\ replies' = replies + 1
    /\ ongoing' = IF Reads(function, r, request_ongoing) THEN ongoing + 1 ELSE ongoing
    /\ LET res == _retry_get_detail(now', start_time, timeout, function, r) IN
       /\ outcome' = res.outcome
       /\ msg' = res.msg
       /\ retvalue' = IF res.outcome = "success" THEN r ELSE retvalue
       /\ pc' = IF loop_continues(res.outcome) THEN "sleep" ELSE "done"
       /\ start_time' = IF loop_continues(res.outcome) THEN int_time(now')
                        ELSE start_time
    /\ UNCHANGED <<function, param, interval, timeout, call,
                   queries, started_at, issued_at>>
    /\ UNCHANGED other_vars

\* The client answers r after d ticks and _retry_get_detail goes on with it;
\* the looping call ends or goes to sleep.
GetDetailReturn(r, d) ==
    /\ pc = "query"
    /\ Capped(now + d)
    /\ now' = now + d
    /\ watch' = d
    /\ reply' = r
    /\ replies' = replies + 1
    /\ ongoing' = IF Reads(function, r, request_ongoing) THEN ongoing + 1 ELSE ongoing
    /\ LET res == _retry_get_detail(now', start_time, timeout, function, r) IN
       /\ outcome' = res.outcome
       /\ msg' = res.msg
       /\ retvalue' = IF res.outcome = "success" THEN r ELSE retvalue
       /\ pc' = IF loop_continues(res.outcome) THEN "sleep" ELSE "done"
    /\ UNCHANGED <<function, param, start_time, interval, timeout, call,
                   queries, started_at, issued_at>>
    /\ UNCHANGED other_vars

\* The looping call sleeps what is left of the interval.
Sleep ==
    /\ pc = "sleep"
    /\ Capped(now + idle_for(watch, interval))
    /\ now' = now + idle_for(watch, interval)
    /\ pc' = "loop"
    /\ UNCHANGED <<function, param, start_time, interval, timeout, watch, call,
                   reply, outcome, retvalue, msg, queries, replies, ongoing,
                   started_at, issued_at>>
    /\ UNCHANGED other_vars

Next ==
    \/ \E t \in 1..MaxTimeout : MonitorRequest(t)
    \/ CallApi
    \/ /\ pc = "query"
       /\ \E d \in 0..MaxCallTicks :
            /\ now' = now + d
            /\ \E r \in Replies(function) : GetDetailReturn(r, d)
    \/ Sleep

Spec == Init /\ [][Next]_vars

\* Mutant: the monitor keeps the reply of its last success and a second
\* monitor of the operation returns it without asking the backend.
MonitorAgain_returns_cached ==
    /\ pc = "done"
    /\ run = 1
    /\ outcome = "success"
    /\ queries = 1
    /\ run' = 2
    /\ prev' = [outcome |-> outcome, retvalue |-> retvalue, queries |-> queries]
    /\ start_time' = int_time(now)
    /\ started_at' = now
    /\ issued_at' = now
    /\ timeout' = 0
    /\ pc' = "done"
    /\ watch' = 0
    /\ call' = NoCall
    /\ queries' = 0
    /\ replies' = 0
    /\ ongoing' = 0
    /\ UNCHANGED <<function, param, interval, now, reply, outcome, retvalue,
                   msg, driver_vars, pair_vars>>

\* A caller whose monitor found the operation done at its first poll monitors
\* the same operation again: it builds a DISCOCheck with the same client,
\* params and function and the time of now, as the initiators do.
MonitorAgain ==
    /\ pc = "done"
    /\ run = 1
    /\ outcome = "success"
    /\ queries = 1
    /\ run' = 2
    /\ prev' = [outcome |-> outcome, retvalue |-> retvalue, queries |-> queries]
    /\ start_time' = int_time(now)
    /\ started_at' = now
    /\ issued_at' = now
    /\ timeout' = 0
    /\ pc' = "init"
    /\ watch' = 0
    /\ call' = NoCall
    /\ reply' = NoneReply
    /\ outcome' = "none"
    /\ retvalue' = NoneReply
    /\ msg' = NoMsg
    /\ queries' = 0
    /\ replies' = 0
    /\ ongoing' = 0
    /\ UNCHANGED <<function, param, interval, now, driver_vars, pair_vars>>

TwiceNext ==
    \/ Next
    \/ MonitorAgain

\* The monitor, and a second monitor of an operation found done, under the
\* default retry_interval.
TwiceInit == Init /\ interval = default_retry_interval

SpecTwice == TwiceInit /\ [][TwiceNext]_vars

\* The clock advances and every query returns.
FairSpec == Spec /\ WF_vars(Next)

\* ---------------------------------------------------------- the initiators
\* create_snapshot, create_volume_from_snapshot and create_cloned_volume of
\* DiscoDriver: each starts an operation with one call on the client, monitors
\* it with a DISCOCheck and then records or looks up the provider_location.
Initiators == {"create_snapshot", "create_volume_from_snapshot",
               "create_cloned_volume"}

\* The call that starts the operation.
InitiatingCall(i) ==
    IF i = "create_snapshot" THEN "snapshotCreate"
    ELSE IF i = "create_volume_from_snapshot" THEN "restoreFromSnapshot"
    ELSE "volumeClone"

\* The function the initiator gives its DISCOCheck.
OperationOf(i) ==
    IF i = "create_snapshot" THEN "snapshot_detail"
    ELSE IF i = "create_volume_from_snapshot" THEN "restore_detail"
    ELSE "clone_detail"

\* Ids of volumes, as volumeDetailByName gives them.
VolumeIds == {21}

DriverInit ==
    /\ initiator \in Initiators
    /\ ipc = "start"
    /\ function = OperationOf(initiator)
    /\ param = ParamsOf(function, Absent)
    /\ now \in 0..(TicksPerSec - 1)
    /\ start_time = int_time(now)
    /\ interval \in 1..MaxInterval
    /\ timeout = 0
    /\ pc = "unbuilt"
    /\ watch = 0
    /\ call = NoCall
    /\ reply = NoneReply
    /\ outcome = "none"
    /\ retvalue = NoneReply
    /\ msg = NoMsg
    /\ queries = 0
    /\ replies = 0
    /\ ongoing = 0
    /\ started_at = now
    /\ issued_at = now
    /\ run = 1
    /\ prev = NoPrev
    /\ accepted = NoAccepted
    /\ called = {}
    /\ provider_location = Absent
    /\ returned = Absent
    /\ PairIdle

\* Mutant: the status of the reply to the initiating call is not looked at.
Initiate_unchecked(st, res) ==
    /\ ipc = "start"
    /\ accepted' = [status |-> st, result |-> res]
    /\ called' = called \cup {InitiatingCall(initiator)}
    /\ ipc' = "monitor"
    /\ param' = ParamsOf(function, res)
    /\ start_time' = int_time(now)
    /\ started_at' = now
    /\ issued_at' = now
    /\ pc' = "init"
    /\ UNCHANGED <<function, interval, timeout, now, watch, call, reply,
                   outcome, retvalue, msg, queries, replies, ongoing,
                   initiator, provider_location, returned, twice_vars, pair_vars>>

\* The initiator makes its call; the reply has status st and result res.  A
\* nonzero status raises; otherwise the DISCOCheck is built with the id of the
\* result and the time of now.
Initiate(st, res) ==
    /\ ipc = "start"
    /\ accepted' = [status |-> st, result |-> res]
    /\ called' = called \cup {InitiatingCall(initiator)}
    /\ IF st # 0
       THEN /\ ipc' = "raised"
            /\ UNCHANGED <<param, start_time, started_at, issued_at, pc>>
       ELSE /\ ipc' = "monitor"
            /\ param' = ParamsOf(function, res)
            /\ start_time' = int_time(now)
            /\ started_at' = now
            /\ issued_at' = now
            /\ pc' = "init"
    /\ UNCHANGED <<function, interval, timeout, now, watch, call, reply,
                   outcome, retvalue, msg, queries, replies, ongoing,
                   initiator, provider_location, returned, twice_vars, pair_vars>>

\* Mutant: an exception of the monitor does not reach the initiator, which
\* goes on as after a success.
Complete_ignores_failure ==
    /\ ipc = "monitor"
    /\ pc = "done"
    /\ IF initiator = "create_snapshot"
       THEN /\ ipc' = "returned"
            /\ provider_location' = accepted.result
            /\ returned' = accepted.result
            /\ UNCHANGED called
       ELSE /\ ipc' = "detail"
            /\ called' = called \cup {"volumeDetailByName"}
            /\ UNCHANGED <<provider_location, returned>>
    /\ UNCHANGED <<function, param, start_time, interval, timeout, now, pc,
                   watch, call, reply, outcome, retvalue, msg, queries, replies,
                   ongoing, started_at, issued_at, initiator, accepted,
                   twice_vars, pair_vars>>

\* _monitor_request has returned or raised.  An exception goes through the
\* initiator; after a success create_snapshot records the result of its
\* initiating call and returns it, the two others call volumeDetailByName.
Complete ==
    /\ ipc = "monitor"
    /\ pc = "done"
    /\ IF outcome # "success"
       THEN /\ ipc' = "raised"
            /\ UNCHANGED <<called, provider_location, returned>>
       ELSE IF initiator = "create_snapshot"
       THEN /\ ipc' = "returned"
            /\ provider_location' = accepted.result
            /\ returned' = accepted.result
            /\ UNCHANGED called
       ELSE /\ ipc' = "detail"
            /\ called' = called \cup {"volumeDetailByName"}
            /\ UNCHANGED <<provider_location, returned>>
    /\ UNCHANGED <<function, param, start_time, interval, timeout, now, pc,
                   watch, call, reply, outcome, retvalue, msg, queries, replies,
                   ongoing, started_at, issued_at, initiator, accepted,
                   twice_vars, pair_vars>>

\* volumeDetailByName answers with status st and volumeInfoResult.volumeId
\* vol: the initiator raises on a missing id or a nonzero status, else
\* returns the id.
DetailByNameReturn(st, vol) ==
    /\ ipc = "detail"
    /\ IF py_item(vol) = Raised \/ st # 0
       THEN ipc' = "raised" /\ UNCHANGED returned
       ELSE ipc' = "returned" /\ returned' = vol
    /\ UNCHANGED <<function, param, start_time, interval, timeout, now, pc,
                   watch, call, reply, outcome, retvalue, msg, queries, replies,
                   ongoing, started_at, issued_at, initiator, accepted, called,
                   provider_location, twice_vars, pair_vars>>

DriverNext ==
    \/ \E st \in TransportValues, res \in ParamIds : Initiate(st, res)
    \/ Next
    \/ Complete
    \/ \E st \in TransportValues, vol \in VolumeIds \cup {Absent} :
          DetailByNameReturn(st, vol)

DriverSpec == DriverInit /\ [][DriverNext]_vars

\* ------------------------------------------------- two monitors at a time
\* Two DISCOCheck objects are built and monitored by two green threads.  The
\* threads share the clock and CONF.retry_interval.  A step of a monitor is
\* an event at the tick `due` of its thread, and the events happen in the
\* order of their ticks, in either order when the ticks are the same.  A
\* monitor is the record s of its object's attributes (obj) and its looping
\* call (th).

\* Mutant: the attributes are kept in one place for all the objects.
owner_shared(i) == 1
\* The object whose attributes `self` names in monitor i: its own.
owner(i) == i

\* The function each of the two monitors is built with.
PairOperation(i) == IF i = 1 THEN "snapshot_detail" ELSE "clone_detail"

\* DISCOCheck.__init__ as the initiators call it, start_time the time of now.
construct(s, clock, op, id) ==
    [s EXCEPT !.obj = [function |-> op, param |-> ParamsOf(op, id),
                       start_time |-> int_time(clock)],
              !.th.pc = "init"]

\* _monitor_request(t): self.start_time and t are bound to the looping call,
\* which is started.
monitor_request(s, clock, t) ==
    [s EXCEPT !.th.pc = "loop",
              !.th.start = s.obj.start_time,
              !.th.limit = t,
              !.th.due = clock + initial_delay(interval) * TicksPerSec]

\* _retry_get_detail up to the call on the client, which answers after d ticks.
poll(s, clock, d) ==
    IF _call_api(s.obj.function, s.obj.param).raised
    THEN [s EXCEPT !.th.pc = "done", !.th.outcome = "unknown_operation"]
    ELSE [s EXCEPT !.th.pc = "query",
                   !.th.queries = @ + 1,
                   !.th.issued_at = clock,
                   !.th.due = clock + d]

\* _retry_get_detail from the reply r on; the looping call ends, or sleeps
\* what is left of the interval.
answer(s, clock, r) ==
    LET res == _retry_get_detail(clock, s.th.start, s.th.limit,
                                 s.obj.function, r) IN
    [s EXCEPT !.th.outcome = res.outcome,
              !.th.pc = IF loop_continues(res.outcome) THEN "loop" ELSE "done",
              !.th.due = IF loop_continues(res.outcome)
                         THEN clock + idle_for(clock - s.th.issued_at, interval)
                         ELSE clock]

\* Monitor i as it sees itself.
View(i) == [obj |-> object[owner(i)], th |-> thread[i]]

\* The event of monitor i is the next one.
Earliest(i) ==
    \A j \in Instances : thread[j].pc # "done" => thread[i].due <= thread[j].due

\* Monitor i becomes v at the tick of its event, the monitor on its own
\* becomes a.
Commit(i, v, a) ==
    /\ now' = thread[i].due
    /\ thread' = [thread EXCEPT ![i] = v.th]
    /\ object' = [object EXCEPT ![owner(i)] = v.obj]
    /\ alone' = [alone EXCEPT ![i] = a]
    /\ UNCHANGED <<mono_vars, twice_vars, driver_vars>>

PairConstruct(i, id) ==
    /\ thread[i].pc = "unbuilt"
    /\ Earliest(i)
    /\ Commit(i, construct(View(i), thread[i].due, PairOperation(i), id),
                 construct(alone[i], alone[i].th.due, PairOperation(i), id))

PairMonitorRequest(i, t) ==
    /\ thread[i].pc = "init"
    /\ Earliest(i)
    /\ Commit(i, monitor_request(View(i), thread[i].due, t),
                 monitor_request(alone[i], alone[i].th.due, t))

PairCallApi(i, d) ==
    /\ thread[i].pc = "loop"
    /\ Earliest(i)
    /\ Commit(i, poll(View(i), thread[i].due, d),
                 poll(alone[i], alone[i].th.due, d))

PairGetDetailReturn(i, r) ==
    /\ thread[i].pc = "query"
    /\ Earliest(i)
    /\ Commit(i, answer(View(i), thread[i].due, r),
                 answer(alone[i], alone[i].th.due, r))

PairNext ==
    \E i \in Instances :
       \/ \E id \in ParamIds : PairConstruct(i, id)
       \/ \E t \in 1..MaxTimeout : PairMonitorRequest(i, t)
       \/ \E d \in 0..MaxCallTicks : PairCallApi(i, d)
       \/ \E r \in Replies(PairOperation(i)) : PairGetDetailReturn(i, r)

\* The first monitor is built at tick 0, the second within the second after.
PairInit ==
    /\ function = "snapshot_detail"
    /\ param = ParamsOf(function, Absent)
    /\ now = 0
    /\ start_time = 0
    /\ interval = default_retry_interval
    /\ timeout = 0
    /\ pc = "unbuilt"
    /\ watch = 0
    /\ call = NoCall
    /\ reply = NoneReply
    /\ outcome = "none"
    /\ retvalue = NoneReply
    /\ msg = NoMsg
    /\ queries = 0
    /\ replies = 0
    /\ ongoing = 0
    /\ started_at = 0
    /\ issued_at = 0
    /\ run = 1
    /\ prev = NoPrev
    /\ initiator = "none"
    /\ ipc = "none"
    /\ accepted = NoAccepted
    /\ called = {}
    /\ provider_location = Absent
    /\ returned = Absent
    /\ object = [i \in Instances |-> NoObject]
    /\ \E late \in 0..TicksPerSec :
          thread = [i \in Instances |->
                      [NoThread EXCEPT !.due = IF i = 1 THEN 0 ELSE late]]
    /\ alone = [i \in Instances |-> [obj |-> NoObject, th |-> thread[i]]]

SpecPair == PairInit /\ [][PairNext]_vars

TypeOK ==
    /\ function \in Operations
    /\ pc \in {"init", "loop", "query", "sleep", "done"}
    /\ outcome \in {"none", "success", "query_failed", "failed", "timeout",
                    "invalid_reply", "unknown_operation"}
    /\ queries \in Nat
    /\ now \in 0..MaxClock

\* The cap on the clock in the guards never holds a running monitor back.
ClockCapUnreached ==
    /\ pc = "init" => Capped(now + initial_delay(interval) * TicksPerSec)
    /\ pc = "query" => Capped(now + MaxCallTicks)
    /\ pc = "sleep" => Capped(now + idle_for(watch, interval))

\* ------------------------------------------------------------------ claims
Kinds == {"snapshot_detail", "restore_detail", "clone_detail"}

\* The last query has been answered and _retry_get_detail has run on the reply.
Polled == replies >= 1 /\ queries = replies

\* What is_timeout computes at the last poll: whole seconds from start_time to
\* the clock read when the reply had come.
ElapsedAtPoll == int_time(issued_at + watch) - start_time

Terminal == outcome # "none"

\* C1: the monitor reaches at most one terminal outcome, and once it has
\* reached one it stays there: the outcome and the value returned never
\* change again and no other status query is issued.
C1_OneOutcomeThenNoQuery ==
    /\ [](Terminal <=> pc = "done")
    /\ [](outcome = "success" <=> (pc = "done" /\ retvalue = reply /\ Polled
                                    /\ Reads(function, reply, request_success)))
    /\ [][Terminal => /\ outcome' = outcome
                      /\ retvalue' = retvalue
                      /\ queries' = queries
                      /\ pc' = "done"]_vars

C1_Witness == pc = "done" /\ outcome = "timeout" /\ queries >= 2

\* C2: the timeout is raised only on the branch of an accepted reply whose
\* status is neither Success nor Failure (Ongoing, within the vocabulary); a
\* reply that reads Success is returned and one that reads Failure fails,
\* whatever the time elapsed at that poll.
C2_TimeoutOnlyWhenOngoing ==
    /\ outcome = "timeout" =>
          /\ Polled
          /\ ~reply.isNone /\ reply.status = 0
          /\ ~Reads(function, reply, request_success)
          /\ ~Reads(function, reply, request_failure)
          /\ \A s \in request_success..request_failure :
                Reads(function, reply, s) => s = request_ongoing
          /\ ElapsedAtPoll > timeout
    /\ (Polled /\ function \in Kinds /\ Reads(function, reply, request_success)) =>
          outcome = "success" /\ retvalue = reply
    /\ (Polled /\ function \in Kinds /\ Reads(function, reply, request_failure)) =>
          outcome = "failed"

C2_Witness ==
    /\ outcome = "success"
    /\ retvalue = reply
    /\ ElapsedAtPoll > timeout

\* C3: a reply whose status is not 0 ends the monitor with an error at that
\* poll, and no query follows it; when it is the first reply, the monitor has
\* made exactly 1 query.
C3_QueryFailedAborts ==
    /\ []((Polled /\ ~reply.isNone /\ reply.status # 0) =>
             /\ pc = "done"
             /\ outcome = "query_failed"
             /\ msg.status = reply.status
             /\ (replies = 1 => queries = 1))
    /\ [][(Polled /\ ~reply.isNone /\ reply.status # 0) =>
             queries' = queries /\ pc' = "done"]_vars

C3_Witness ==
    /\ pc = "done"
    /\ outcome = "query_failed"
    /\ replies = 1
    /\ queries = 1

\* C4: for each of the three kinds, k Ongoing replies that come within the
\* timeout keep the monitor polling, and a Success reply after them ends it:
\* the monitor returns that reply and has made k+1 queries.
C4_OngoingThenSuccess ==
    function \in Kinds =>
    /\ (Polled /\ ongoing = replies /\ ElapsedAtPoll <= timeout) =>
          pc \in {"sleep", "loop"} /\ outcome = "none"
    /\ (Polled /\ ongoing = replies - 1
               /\ Reads(function, reply, request_success)) =>
          /\ pc = "done"
          /\ outcome = "success"
          /\ retvalue = reply
          /\ queries = ongoing + 1

C4_Witness ==
    /\ function = "restore_detail"
    /\ pc = "done"
    /\ outcome = "success"
    /\ ongoing = 2
    /\ queries = 3
    /\ retvalue = reply

\* C5: a reply that reads Failure ends the monitor with the failure error, and
\* no query follows it; after the replies [Ongoing, Failure] the monitor has
\* made exactly 2 queries.
C5_FailureAborts ==
    /\ []((Polled /\ function \in Kinds
                  /\ Reads(function, reply, request_failure)) =>
             /\ pc = "done"
             /\ outcome = "failed"
             /\ ((replies = 2 /\ ongoing = 1) => queries = 2))
    /\ [][outcome = "failed" => queries' = queries /\ pc' = "done"]_vars

C5_Witness ==
    /\ pc = "done"
    /\ outcome = "failed"
    /\ replies = 2
    /\ ongoing = 1
    /\ queries = 2

\* C6: while every reply is Ongoing, the poll raises the timeout exactly when
\* the seconds elapsed since start_time, as is_timeout counts them, exceed
\* the timeout: never at a poll where they are at most the timeout.
C6_TimeoutWhenElapsedExceeds ==
    (Polled /\ function \in Kinds /\ ongoing = replies) =>
       /\ outcome \in {"none", "timeout"}
       /\ outcome = "timeout" <=> ElapsedAtPoll > timeout
       /\ pc = "done" <=> ElapsedAtPoll > timeout

C6_Witness ==
    /\ outcome = "timeout"
    /\ ongoing = replies
    /\ timeout = 2 * interval
    /\ replies >= 3
    /\ ElapsedAtPoll = timeout + 1

\* C7: when the clock advances and every query returns, the monitor ends,
\* also when every reply is Ongoing.
C7_Terminates == <>(pc = "done")

C7_Witness ==
    /\ pc = "done"
    /\ outcome = "timeout"
    /\ ongoing = replies
    /\ replies >= 2

\* C8: a monitor of an operation that is none of the three kinds ends with
\* the unknown-operation error and makes no call on the client.
C8_UnknownOperationNoCall ==
    function \notin Kinds =>
       /\ queries = 0
       /\ call = NoCall
       /\ pc \in {"init", "loop", "done"}
       /\ pc = "done" <=> outcome = "unknown_operation"
       /\ outcome \in {"none", "unknown_operation"}

C8_Witness ==
    /\ function = "volume_detail"
    /\ pc = "done"
    /\ outcome = "unknown_operation"
    /\ queries = 0

\* C9: the status that decides is read per kind: the result field for
\* clone_detail, snapshotInfoResult.status for snapshot_detail,
\* restoreInfoResult.status for restore_detail.  A clone reply with result 1
\* is a Success; a snapshot or restore reply with result 1 and a nested
\* status 2 is Ongoing.
C9_StatusPerKind ==
    (Polled /\ ~reply.isNone /\ reply.status = 0) =>
       /\ (function = "clone_detail" /\ reply.result = request_success) =>
             outcome = "success" /\ retvalue = reply
       /\ (function = "snapshot_detail"
             /\ reply.snapshotInfoResult = request_ongoing) =>
             outcome = (IF ElapsedAtPoll > timeout THEN "timeout" ELSE "none")
       /\ (function = "restore_detail"
             /\ reply.restoreInfoResult = request_ongoing) =>
             outcome = (IF ElapsedAtPoll > timeout THEN "timeout" ELSE "none")
       /\ (function = "snapshot_detail"
             /\ reply.snapshotInfoResult = request_success) =>
             outcome = "success"
       /\ (function = "restore_detail"
             /\ reply.restoreInfoResult = request_success) =>
             outcome = "success"

C9_Witness ==
    /\ function = "snapshot_detail"
    /\ Polled
    /\ reply.status = 0
    /\ reply.result = request_success
    /\ reply.snapshotInfoResult = request_ongoing
    /\ outcome = "none"
    /\ pc = "sleep"

\* C10, as claimed: no status query is issued until one poll interval has
\* elapsed since the monitor was started.
C10_WaitBeforeFirstQuery ==
    queries >= 1 => now - started_at >= interval * TicksPerSec

\* C10, amended: the first query is issued when the monitor is started, with
\* no wait before it; every later query is issued at least one poll interval
\* after the query before it.
C10_FirstQueryImmediate ==
    /\ [](queries >= 1 => pc # "init")
    /\ [](queries = 1 => issued_at = started_at)
    /\ [][(queries' = queries + 1 /\ queries >= 1) =>
             issued_at' >= issued_at + interval * TicksPerSec]_vars

C10_Witness ==
    /\ pc = "query"
    /\ queries = 1
    /\ now = started_at

\* C11, as claimed: with a poll interval that is at least the timeout and an
\* operation that stays Ongoing, the monitor times out without having issued
\* any status query.
C11_TimeoutAfterZeroPolls ==
    (interval >= timeout /\ ongoing = replies /\ outcome = "timeout") =>
       queries = 0

\* C11, amended: with a poll interval that is at least the timeout, the
\* timeout is still only raised at a poll, that is after at least one status
\* query, and at a poll whose elapsed seconds exceed the timeout; a first
\* Ongoing reply that comes within the timeout makes the monitor poll again.
C11_TimeoutOnlyAtAPoll ==
    interval >= timeout =>
       /\ outcome = "timeout" =>
             queries >= 1 /\ Polled /\ ElapsedAtPoll > timeout
       /\ (Polled /\ replies = 1 /\ ongoing = 1 /\ ElapsedAtPoll <= timeout) =>
             outcome = "none" /\ pc \in {"sleep", "loop"}

C11_Witness ==
    /\ interval >= timeout
    /\ outcome = "timeout"
    /\ ongoing = replies
    /\ queries = 2

\* The reply holds no status for the operation: there is no reply, or the
\* field of the kind is missing or empty.
Unparseable(operation, r) ==
    \/ r.isNone
    \/ /\ r.status = 0
       /\ \/ Reads(operation, r, Absent)
          \/ Reads(operation, r, Empty)

\* C12: a reply with no parseable payload (no reply, or the status field of
\* the kind missing or empty) ends the monitor with an error at that poll: it
\* is never taken for Ongoing and no query follows it.
C12_UnparseableReplyAborts ==
    (Polled /\ function \in Kinds /\ Unparseable(function, reply)) =>
       pc = "done" /\ outcome \notin {"none", "success", "timeout"}

\* C15: every error keeps its diagnostic payload: the query-failed error the
\* status of the reply and the operation, the operation-failed error the
\* payload of the reply, the timed-out error the elapsed time and the
\* operation.
C15_ErrorsCarryPayload ==
    /\ outcome = "query_failed" =>
          msg.status = reply.status /\ msg.op = function
    /\ outcome = "failed" => msg.payload # Absent
    /\ outcome = "timeout" =>
          msg.elapsed = ElapsedAtPoll /\ msg.op = function

\* C16: the timeout is measured from the start of the monitor, not from the
\* last poll: no step of a started monitor changes its start time, operation,
\* params or timeout, and an Ongoing poll times out exactly when the seconds
\* from the second the monitor was started in exceed the timeout.
C16_StartAndBudgetUnchanged ==
    /\ [][pc # "init" => UNCHANGED <<start_time, function, param, timeout>>]_vars
    /\ [](start_time = int_time(started_at))
    /\ []((Polled /\ function \in Kinds /\ Reads(function, reply, request_ongoing)) =>
            (outcome = "timeout" <=>
               int_time(issued_at + watch) - int_time(started_at) > timeout))

C16_Witness ==
    /\ outcome = "timeout"
    /\ replies >= 3
    /\ start_time = int_time(started_at)
    /\ int_time(issued_at + watch) - int_time(issued_at) <= timeout

\* C17: one poll at a time: no status query is issued while the query before
\* it of the same monitor is out.
C17_SingleActivePoll ==
    /\ queries - replies \in {0, 1}
    /\ pc = "query" <=> queries = replies + 1

C17_Witness ==
    /\ pc = "query"
    /\ queries = 2
    /\ replies = 1

\* C18: the status of the reply is looked at before the status of the
\* operation: a reply with a nonzero status whose field of the kind reads
\* Success ends the monitor with the query-failed error and is not returned.
C18_TransportStatusFirst ==
    (Polled /\ function \in Kinds /\ ~reply.isNone /\ reply.status # 0
       /\ request_success =
            (IF function = "snapshot_detail" THEN reply.snapshotInfoResult
             ELSE IF function = "restore_detail" THEN reply.restoreInfoResult
             ELSE reply.result)) =>
       /\ pc = "done"
       /\ outcome = "query_failed"
       /\ retvalue # reply

C18_Witness ==
    /\ function = "clone_detail"
    /\ Polled
    /\ reply.status # 0
    /\ reply.result = request_success
    /\ outcome = "query_failed"

\* C19: a status that is neither Success nor Failure, be it Ongoing or a
\* number outside the vocabulary, is handled as Ongoing: the monitor polls
\* again unless the elapsed seconds exceed the timeout, and neither succeeds
\* nor fails on it.
C19_OtherStatusIsOngoing ==
    \A s \in StatusValues \ {request_success, request_failure} :
       (Polled /\ function \in Kinds /\ Reads(function, reply, s)) =>
          /\ outcome = (IF ElapsedAtPoll > timeout THEN "timeout" ELSE "none")
          /\ pc = (IF ElapsedAtPoll > timeout THEN "done" ELSE pc)
          /\ ElapsedAtPoll <= timeout => pc \in {"sleep", "loop"}

C19_Witness ==
    /\ function = "restore_detail"
    /\ Polled
    /\ Reads(function, reply, 0)
    /\ outcome = "none"
    /\ pc = "loop"
    /\ queries = 1

\* C13: a second monitor of an operation that the backend reported done at
\* the first poll of the first one, and reports the same way again, ends as
\* the first did: the same payload, after exactly 1 query of its own.
C13_SecondMonitorSame ==
    run = 2 =>
       /\ prev.outcome = "success" /\ prev.queries = 1
       /\ (Polled /\ replies = 1 /\ reply = prev.retvalue) =>
             /\ pc = "done"
             /\ outcome = prev.outcome
             /\ retvalue = prev.retvalue
             /\ queries = prev.queries
       /\ pc = "done" => Polled
       /\ outcome = "success" => retvalue = reply /\ Polled

C13_Witness ==
    /\ run = 2
    /\ pc = "done"
    /\ outcome = "success"
    /\ retvalue = prev.retvalue
    /\ queries = 1
    /\ prev.queries = 1

\* C20: the monitor is started only after the initiating request was
\* accepted: when the initiating call of create_snapshot,
\* create_volume_from_snapshot or create_cloned_volume answers a nonzero
\* status, the initiator fails and no detail query is ever issued.
C20_MonitorOnlyAfterAccepted ==
    /\ (ipc # "start" /\ accepted.status # 0) =>
          /\ ipc = "raised"
          /\ pc = "unbuilt"
          /\ queries = 0
          /\ call = NoCall
          /\ called = {InitiatingCall(initiator)}
    /\ (pc # "unbuilt" \/ queries >= 1) =>
          /\ accepted.status = 0
          /\ InitiatingCall(initiator) \in called
          /\ function = OperationOf(initiator)

C20_Witness ==
    /\ initiator = "create_cloned_volume"
    /\ ipc = "raised"
    /\ accepted.status # 0
    /\ queries = 0
    /\ called = {"volumeClone"}

C21_LocationOnlyAfterSuccess ==
    /\ (provider_location # Absent \/ returned # Absent
          \/ "volumeDetailByName" \in called) =>
          /\ pc = "done"
          /\ outcome = "success"
          /\ accepted.status = 0
    /\ (pc = "done" /\ outcome # "success" /\ ipc # "monitor") =>
          /\ ipc = "raised"
          /\ provider_location = Absent
          /\ returned = Absent
          /\ called = {InitiatingCall(initiator)}
    /\ (provider_location # Absent) =>
          /\ initiator = "create_snapshot"
          /\ provider_location = accepted.result
          /\ returned = provider_location

C21_Witness ==
    /\ initiator = "create_volume_from_snapshot"
    /\ ipc = "raised"
    /\ pc = "done"
    /\ outcome = "timeout"
    /\ queries >= 2
    /\ called = {"restoreFromSnapshot"}
    /\ returned = Absent
====
